---- MODULE Spec2Model ----
(***************************************************************************)
(* A model of app.py: a Kafka consumer thread that feeds                   *)
(* StreamingIndex.store_event, which writes every event to RocksDB (the    *)
(* Point Index Store, on disk) and to an in-memory DuckDB table (the       *)
(* Analytical Store), and the FastAPI handlers that read the two stores.   *)
(*                                                                         *)
(* Each store is taken to be safe for concurrent use: db.put, the creation *)
(* of an iterator, the INSERT and the SELECT are atomic steps, and an      *)
(* iterator reads the store as it was when the iterator was created.       *)
(*                                                                         *)
(* Python values are represented as follows.                               *)
(*   str      a string; CodePoints lists the characters of each            *)
(*   bytes    [ascii |-> s], the bytes that encode the ASCII str s         *)
(*   None     <<>>, and a present value x of an optional is <<x>>          *)
(*   dict     a function whose domain is the set of keys that are present  *)
(*   JSON text [json |-> v], the text that json.loads parses to v          *)
(***************************************************************************)
EXTENDS Integers, Sequences, FiniteSets, TLC

VARIABLES
    db,           \* RocksDB "streaming_db": key bytes -> value bytes (on disk)
    sensor_data,  \* the DuckDB table sensor_data, rows in insertion order (in memory)
    th,           \* per thread: where it is in store_event / consume_stream
    topic,        \* the Kafka topic 'sensor_data': the messages produced so far
    offset,       \* the consumer's position in the topic (index of the next message)
    q,            \* the /query handler: query_data -> query_events
    agg,          \* the /aggregated_metrics handler
    ws,           \* the /live_query websocket handler
    ncalls,       \* store_event calls made so far (bounded by MaxCalls)
    restarts,     \* process restarts so far (bounded by MaxRestarts)
    written,      \* history: per key, the event of the last db.put that succeeded
    puts,         \* history: the <<key, event>> of every db.put that succeeded
    done,         \* history: per key, the events of the calls of this process
                  \* lifetime that ran to their end (returned, or raised in the
                  \* INSERT) and whose arguments the table accepts on their
                  \* own, in the order they ended
    okcalls       \* history: the calls of this process lifetime that returned

vars == <<db, sensor_data, th, topic, offset, q, agg, ws, ncalls, restarts,
          written, puts, done, okcalls>>

----------------------------------------------------------------------------
(* Bounds of the model. *)

MaxCalls == 3
MaxRestarts == 1
MaxTopic == 2

----------------------------------------------------------------------------
(* Python str, bytes and optional values. *)

None == <<>>
Some(x) == <<x>>

\* dict.get(f) and dict.get(f, default)
Get(value, f) == IF f \in DOMAIN value THEN Some(value[f]) ELSE None
GetOr(value, f, default) == IF f \in DOMAIN value THEN value[f] ELSE default

\* the code points of every str of the model
CodePoints ==
    "" :>
        <<>> @@
    "unknown" :>
        <<117, 110, 107, 110, 111, 119, 110>> @@
    "None" :>
        <<78, 111, 110, 101>> @@
    "soon" :>
        <<115, 111, 111, 110>> @@
    "2" :>
        <<50>> @@
    "s1" :>
        <<115, 49>> @@
    "00000000000000000000000000000001" :>
        <<48, 48, 48, 48, 48, 48, 48, 48, 48, 48, 48, 48, 48, 48, 48, 48, 48, 48, 48, 48, 48, 48, 48, 48, 48, 48, 48, 48, 48, 48, 48, 49>> @@
    "00000000000000000000000000000002" :>
        <<48, 48, 48, 48, 48, 48, 48, 48, 48, 48, 48, 48, 48, 48, 48, 48, 48, 48, 48, 48, 48, 48, 48, 48, 48, 48, 48, 48, 48, 48, 48, 50>> @@
    "b'00000000000000000000000000000001'" :>
        <<98, 39, 48, 48, 48, 48, 48, 48, 48, 48, 48, 48, 48, 48, 48, 48, 48, 48, 48, 48, 48, 48, 48, 48, 48, 48, 48, 48, 48, 48, 48, 48, 48, 49, 39>> @@
    "2024-01-01T00:01:10" :>
        <<50, 48, 50, 52, 45, 48, 49, 45, 48, 49, 84, 48, 48, 58, 48, 49, 58, 49, 48>> @@
    "2024-01-01T00:01:50" :>
        <<50, 48, 50, 52, 45, 48, 49, 45, 48, 49, 84, 48, 48, 58, 48, 49, 58, 53, 48>> @@
    "2024-01-01T00:02:05" :>
        <<50, 48, 50, 52, 45, 48, 49, 45, 48, 49, 84, 48, 48, 58, 48, 50, 58, 48, 53>>

Chars(s) == CodePoints[s]

\* the str made of the code points cs
StrOf(cs) == CHOOSE s \in DOMAIN CodePoints : CodePoints[s] = cs

\* a < b for two sequences of code points (or of bytes): lexicographic
RECURSIVE SeqLt(_, _)
SeqLt(a, b) ==
    IF b = <<>> THEN FALSE
    ELSE IF a = <<>> THEN TRUE
    ELSE IF Head(a) # Head(b) THEN Head(a) < Head(b)
    ELSE SeqLt(Tail(a), Tail(b))

\* a < b as Python compares two str
StrLt(a, b) == SeqLt(Chars(a), Chars(b))

\* a > b
StrGt(a, b) == StrLt(b, a)

\* a >= b as Python compares two str
StrGe(a, b) == ~StrLt(a, b)

\* str.encode(): the UTF-8 bytes of a str of ASCII characters are its code points
Encode(s) == CASE \A i \in 1..Len(Chars(s)) : Chars(s)[i] < 128 -> [ascii |-> s]

\* a < b for two bytes, as RocksDB orders keys
BytesLt(a, b) == SeqLt(Chars(a.ascii), Chars(b.ascii))

\* json.dumps(v) and json.loads(text)
Dumps(v) == [json |-> v]
Loads(text) == text.json

IsDigit(c) == c \in 48..57
IsHex(c) == IsDigit(c) \/ c \in 97..102 \/ c \in 65..70
Lower(c) == IF c \in 65..90 THEN c + 32 ELSE c

\* the characters of s other than c
RECURSIVE Without(_, _)
Without(s, c) ==
    IF s = <<>> THEN <<>>
    ELSE (IF Head(s) = c THEN <<>> ELSE <<Head(s)>>) \o Without(Tail(s), c)

\* the decimal number written by a sequence of digits
RECURSIVE Num(_)
Num(s) == IF s = <<>> THEN 0 ELSE Num(SubSeq(s, 1, Len(s) - 1)) * 10 + (s[Len(s)] - 48)

----------------------------------------------------------------------------
(* What DuckDB does with the parameters of the INSERT. *)

\* VARCHAR -> UUID: hyphens are skipped, 32 hex digits must remain; the value
\* is named by its digits in lower case.  None when the cast fails.
ParseUUID(s) ==
    LET h == Without(Chars(s), 45)
    IN IF Len(h) = 32 /\ \A i \in 1..Len(h) : IsHex(h[i])
       THEN Some(StrOf([i \in 1..32 |-> Lower(h[i])]))
       ELSE None

\* VARCHAR -> TIMESTAMP for the fixed-width form YYYY-MM-DD(T| )HH:MM:SS:
\* <<year, month, day, hour, minute, second>>.  None when the cast fails.
ParseTimestamp(str) ==
    LET s == Chars(str)
    IN IF /\ Len(s) = 19
          /\ \A i \in {1, 2, 3, 4, 6, 7, 9, 10, 12, 13, 15, 16, 18, 19} : IsDigit(s[i])
          /\ s[5] = 45 /\ s[8] = 45 /\ s[11] \in {84, 32} /\ s[14] = 58 /\ s[17] = 58
          /\ Num(SubSeq(s, 6, 7)) \in 1..12 /\ Num(SubSeq(s, 9, 10)) \in 1..31
          /\ Num(SubSeq(s, 12, 13)) \in 0..23 /\ Num(SubSeq(s, 15, 16)) \in 0..59
          /\ Num(SubSeq(s, 18, 19)) \in 0..59
       THEN Some(<<Num(SubSeq(s, 1, 4)), Num(SubSeq(s, 6, 7)), Num(SubSeq(s, 9, 10)),
                   Num(SubSeq(s, 12, 13)), Num(SubSeq(s, 15, 16)), Num(SubSeq(s, 18, 19))>>)
       ELSE None

\* date_trunc('minute', ts), NULL for NULL
DateTruncMinute(ts) == IF ts = None THEN None ELSE Some([ts[1] EXCEPT ![6] = 0])

----------------------------------------------------------------------------
(* The inputs: keys, timestamps and events. *)

\* a sentinel that is the empty str
EmptySentinel == ""

Unknown == "unknown"

\* two keys that are UUIDs and one that is not
K1 == "00000000000000000000000000000001"
K2 == "00000000000000000000000000000002"
KBad == "s1"
Keys == {K1, K2, KBad}

\* three timestamps, the first two in the same minute, and a str that is none
TsA == "2024-01-01T00:01:10"
TsB == "2024-01-01T00:01:50"
TsC == "2024-01-01T00:02:05"
TsBad == "soon"

E1 == [temperature |-> 20, humidity |-> 40, pressure |-> 1000, timestamp |-> TsA]
E2 == [temperature |-> 22, humidity |-> 50, pressure |-> 1010, timestamp |-> TsB]
E3 == [temperature |-> 22, timestamp |-> TsC]
E4 == [temperature |-> 20, humidity |-> 40, pressure |-> 1000]
E5 == [temperature |-> 20, timestamp |-> TsBad]
Events == {E1, E2, E3, E4, E5}

----------------------------------------------------------------------------
(* StreamingIndex.store_event *)

\* an indexed_value whose timestamp is read from the column's name
IndexedValueWrongField(value) ==
    [data |-> value, timestamp |-> GetOr(value, "recorded_at", Unknown)]

\* indexed_value
IndexedValue(value) ==
    [data |-> value, timestamp |-> GetOr(value, "timestamp", Unknown)]

\* the bytes of a JSON text and back (json.dumps(...).encode(), value.decode())
Utf8(text) == [utf8 |-> text]
FromUtf8(b) == b.utf8

\* a put that keeps the value a key already has
DbPutIfAbsent(d, k, v) == [x \in DOMAIN d \cup {k} |-> IF x \in DOMAIN d THEN d[x] ELSE v]

\* a put that is not atomic: over an existing value it leaves the new data
\* beside the old timestamp
DbPutTorn(d, k, v) ==
    [x \in DOMAIN d \cup {k} |->
        IF x # k THEN d[x]
        ELSE IF k \notin DOMAIN d THEN v
        ELSE Utf8(Dumps([data |-> Loads(FromUtf8(v)).data,
                         timestamp |-> Loads(FromUtf8(d[k])).timestamp]))]

\* db.put(k, v) on the store contents d
DbPut(d, k, v) == [x \in DOMAIN d \cup {k} |-> IF x = k THEN v ELSE d[x]]

\* the parameter tuple of the INSERT
InsertParams(key, value) ==
    <<key, Get(value, "temperature"), Get(value, "humidity"),
      Get(value, "pressure"), Get(value, "timestamp")>>

\* the row the INSERT adds once its parameters are cast to the column types
InsertRow(p) ==
    [sensor_id |-> ParseUUID(p[1])[1],
     temperature |-> p[2], humidity |-> p[3], pressure |-> p[4],
     recorded_at |-> IF p[5] = None THEN None ELSE ParseTimestamp(p[5][1])]

\* the exception the INSERT raises on table contents t, "" when it succeeds:
\* a parameter that does not cast to its column type, or a second row with
\* the same sensor_id (sensor_id UUID PRIMARY KEY)
InsertError(t, p) ==
    IF ParseUUID(p[1]) = None THEN "ConversionException"
    ELSE IF p[5] # None /\ ParseTimestamp(p[5][1]) = None THEN "ConversionException"
    ELSE IF \E i \in 1..Len(t) : t[i].sensor_id = ParseUUID(p[1])[1]
         THEN "ConstraintException"
    ELSE ""

\* the threads that call store_event: the Kafka consumer thread of __main__,
\* and the callers of a process that imports the module and calls it directly
ConsumerThread == "consume_stream"
Callers == {"caller1", "caller2"}
Threads == {ConsumerThread} \cup Callers

NoEvent == [x \in {} |-> 0]

\* a thread: pc is where it is (ready: no call made yet; insert: in
\* store_event, db.put done; returned; raised: an exception left the call),
\* key and value are the arguments of its call and exc the exception; as
\* history, old is what the index held under key when the call began, rows0
\* the number of rows of the table then, and conc the keys of the calls of
\* other threads that were in progress at some moment of this call
Idle == [pc |-> "ready", key |-> "", value |-> NoEvent, exc |-> "",
         old |-> None, rows0 |-> 0, conc |-> {}]

\* the calls recorded in done: arguments the empty table accepts
Accepted(key, value) == InsertError(<<>>, InsertParams(key, value)) = ""

\* store_event that goes on to the INSERT when db.put has raised
StoreEventPutSwallowed(t, key, value, putOk) ==
    LET others == {u \in Threads \ {t} : th[u].pc = "insert"}
        call == [pc |-> "insert", key |-> key, value |-> value, exc |-> "",
                 old |-> IF Encode(key) \in DOMAIN db
                         THEN Some(db[Encode(key)]) ELSE None,
                 rows0 |-> Len(sensor_data), conc |-> {th[u].key : u \in others}]
    IN /\ ncalls < MaxCalls
       /\ ncalls' = ncalls + 1
       /\ th' = [u \in Threads |->
                   IF u = t THEN call
                   ELSE IF u \in others THEN [th[u] EXCEPT !.conc = @ \cup {key}]
                   ELSE th[u]]
       /\ IF putOk
          THEN /\ db' = DbPut(db, Encode(key), Utf8(Dumps(IndexedValue(value))))
               /\ written' = [written EXCEPT ![key] = Some(value)]
               /\ puts' = puts \cup {<<key, value>>}
          ELSE UNCHANGED <<db, written, puts>>

\* store_event up to and including db.put; putOk is whether RocksDB accepts
\* the write (it raises on an I/O error)
StoreEventPut(t, key, value, putOk) ==
    LET others == {u \in Threads \ {t} : th[u].pc = "insert"}
        call == [pc |-> "insert", key |-> key, value |-> value, exc |-> "",
                 old |-> IF Encode(key) \in DOMAIN db
                         THEN Some(db[Encode(key)]) ELSE None,
                 rows0 |-> Len(sensor_data), conc |-> {th[u].key : u \in others}]
    IN /\ ncalls < MaxCalls
       /\ ncalls' = ncalls + 1
       /\ IF putOk
          THEN /\ db' = DbPut(db, Encode(key), Utf8(Dumps(IndexedValue(value))))
               /\ th' = [u \in Threads |->
                           IF u = t THEN call
                           ELSE IF u \in others THEN [th[u] EXCEPT !.conc = @ \cup {key}]
                           ELSE th[u]]
               /\ written' = [written EXCEPT ![key] = Some(value)]
               /\ puts' = puts \cup {<<key, value>>}
          ELSE /\ th' = [th EXCEPT ![t] =
                           [call EXCEPT !.pc = "raised", !.exc = "RocksIOError"]]
               /\ UNCHANGED <<db, written, puts>>

\* store_event with a read-modify-write of the table: the INSERT adds its
\* row to the rows the table had when the call began
StoreEventInsertStale(t) ==
    /\ th[t].pc = "insert"
    /\ LET p == InsertParams(th[t].key, th[t].value)
           err == InsertError(sensor_data, p)
       IN /\ done' = IF Accepted(th[t].key, th[t].value)
                     THEN [done EXCEPT ![th[t].key] = Append(@, th[t].value)] ELSE done
          /\ IF err = ""
             THEN /\ sensor_data' =
                        Append(SubSeq(sensor_data, 1, th[t].rows0), InsertRow(p))
                  /\ th' = [th EXCEPT ![t].pc = "returned"]
                  /\ okcalls' = okcalls + 1
             ELSE /\ th' = [th EXCEPT ![t].pc = "raised", ![t].exc = err]
                  /\ UNCHANGED <<sensor_data, okcalls>>
    /\ UNCHANGED <<db, topic, offset, q, agg, ws, ncalls, restarts, written, puts>>

\* store_event that undoes db.put when the INSERT fails
StoreEventInsertRollback(t) ==
    /\ th[t].pc = "insert"
    /\ LET p == InsertParams(th[t].key, th[t].value)
           err == InsertError(sensor_data, p)
           k == Encode(th[t].key)
       IN /\ done' = IF Accepted(th[t].key, th[t].value)
                     THEN [done EXCEPT ![th[t].key] = Append(@, th[t].value)] ELSE done
          /\ IF err = ""
             THEN /\ sensor_data' = Append(sensor_data, InsertRow(p))
                  /\ th' = [th EXCEPT ![t].pc = "returned"]
                  /\ okcalls' = okcalls + 1
                  /\ UNCHANGED db
             ELSE /\ th' = [th EXCEPT ![t].pc = "raised", ![t].exc = err]
                  /\ db' = IF th[t].old = None
                           THEN [x \in DOMAIN db \ {k} |-> db[x]]
                           ELSE [db EXCEPT ![k] = th[t].old[1]]
                  /\ UNCHANGED <<sensor_data, okcalls>>
    /\ UNCHANGED <<topic, offset, q, agg, ws, ncalls, restarts, written, puts>>

\* store_event that waits for a lock the snapshot feed holds during its scan
StoreEventInsertUnderLock(t) ==
    /\ th[t].pc = "insert"
    /\ ws.pc # "sending"
    /\ LET p == InsertParams(th[t].key, th[t].value)
           err == InsertError(sensor_data, p)
       IN /\ done' = IF Accepted(th[t].key, th[t].value)
                     THEN [done EXCEPT ![th[t].key] = Append(@, th[t].value)] ELSE done
          /\ IF err = ""
             THEN /\ sensor_data' = Append(sensor_data, InsertRow(p))
                  /\ th' = [th EXCEPT ![t].pc = "returned"]
                  /\ okcalls' = okcalls + 1
             ELSE /\ th' = [th EXCEPT ![t].pc = "raised", ![t].exc = err]
                  /\ UNCHANGED <<sensor_data, okcalls>>
    /\ UNCHANGED <<db, topic, offset, q, agg, ws, ncalls, restarts, written, puts>>

\* the rest of store_event: duckdb_conn.execute("INSERT ..."), then return
StoreEventInsert(t) ==
    /\ th[t].pc = "insert"
    /\ LET p == InsertParams(th[t].key, th[t].value)
           err == InsertError(sensor_data, p)
       IN /\ done' = IF Accepted(th[t].key, th[t].value)
                     THEN [done EXCEPT ![th[t].key] = Append(@, th[t].value)] ELSE done
          /\ IF err = ""
             THEN /\ sensor_data' = Append(sensor_data, InsertRow(p))
                  /\ th' = [th EXCEPT ![t].pc = "returned"]
                  /\ okcalls' = okcalls + 1
             ELSE /\ th' = [th EXCEPT ![t].pc = "raised", ![t].exc = err]
                  /\ UNCHANGED <<sensor_data, okcalls>>
    /\ UNCHANGED <<db, topic, offset, q, agg, ws, ncalls, restarts, written, puts>>

\* a direct call of stream_index.store_event(key, value) by thread t, with
\* the key and the event drawn from keys and events
CallWith(t, keys, events) ==
    /\ th[t].pc \in {"ready", "returned", "raised"}
    /\ \E key \in keys, value \in events, putOk \in BOOLEAN :
           StoreEventPut(t, key, value, putOk)
    /\ UNCHANGED <<sensor_data, topic, offset, q, agg, ws, restarts, done, okcalls>>

Call(t) == CallWith(t, Keys, Events)

\* the calls made while the handlers of the server read
CallDuringReads == CallWith("caller1", Keys, {E1, E3, E4})

\* the calls made while /aggregated_metrics is served
CallDuringAggregates == CallWith("caller1", Keys, {E1, E2, E3})

\* the calls made while a feed is followed to its end
CallDuringFeed == CallWith("caller1", {K1, K2}, {E1, E4})

\* the calls made while /query and /live_query scan the index
CallDuringScans == CallWith("caller1", {K1, K2}, {E1, E4})

\* the calls made while all three handlers are served
CallDuringAllReads == CallWith("caller1", {K1, K2}, {E1})

\* the calls two threads make at once
ConcurrentCall(t) == CallWith(t, Keys, {E1, E5})

----------------------------------------------------------------------------
(* The Kafka consumer and consume_stream *)

\* message.key is None or bytes: no key_deserializer is configured
NoKey == [isNone |-> TRUE, bytes |-> Encode("")]
BytesKey(b) == [isNone |-> FALSE, bytes |-> b]
MsgKeys == {NoKey, BytesKey(Encode(K1))}

\* str(message.key): "None", or the repr b'...' of printable ASCII bytes
Str(k) == IF k.isNone THEN "None"
          ELSE StrOf(<<98, 39>> \o Chars(k.bytes.ascii) \o <<39>>)

\* message payloads: bytes that are not UTF-8, UTF-8 text that is not JSON,
\* and the JSON text of an event
BadUtf8 == [kind |-> "badutf8", obj |-> NoEvent]
BadJson == [kind |-> "badjson", obj |-> NoEvent]
Json(v) == [kind |-> "json", obj |-> v]
Payloads == {BadUtf8, BadJson, Json(E1)}
Messages == [key : MsgKeys, value : Payloads]

\* value_deserializer: json.loads(x.decode('utf-8'))
Deserialize(x) ==
    IF x.kind = "badutf8" THEN [exc |-> "UnicodeDecodeError", value |-> NoEvent]
    ELSE IF x.kind = "badjson" THEN [exc |-> "JSONDecodeError", value |-> NoEvent]
    ELSE [exc |-> "", value |-> x.obj]

AllKeys == Keys \cup {Str(k) : k \in MsgKeys}

\* a producer appends a message to the topic
Produce ==
    /\ Len(topic) < MaxTopic
    /\ \E m \in Messages : topic' = Append(topic, m)
    /\ UNCHANGED <<db, sensor_data, th, offset, q, agg, ws, ncalls, restarts, written, puts, done, okcalls>>

\* one iteration of "for message in consumer": the consumer deserializes the
\* next message (an exception of the deserializer leaves the for loop and
\* ends the thread), then store_event runs up to db.put
Consume ==
    /\ th[ConsumerThread].pc \in {"ready", "returned"}
    /\ offset <= Len(topic)
    /\ offset' = offset + 1
    /\ LET m == topic[offset]
           d == Deserialize(m.value)
       IN IF d.exc # ""
          THEN /\ th' = [th EXCEPT ![ConsumerThread] =
                           [Idle EXCEPT !.pc = "raised", !.key = Str(m.key),
                                         !.exc = d.exc]]
               /\ UNCHANGED <<db, ncalls, written, puts>>
          ELSE \E putOk \in BOOLEAN :
                   StoreEventPut(ConsumerThread, Str(m.key), d.value, putOk)
    /\ UNCHANGED <<sensor_data, topic, q, agg, ws, restarts, done, okcalls>>

----------------------------------------------------------------------------
(* Reading the stores *)

\* the keys of a set in ascending byte order
RECURSIVE SortedKeys(_)
SortedKeys(S) ==
    IF S = {} THEN <<>>
    ELSE LET m == CHOOSE x \in S : \A y \in S \ {x} : BytesLt(x, y)
         IN <<m>> \o SortedKeys(S \ {m})

\* an iterator that yields the pairs in descending key order
DbIteratorReversed(d) ==
    LET ks == SortedKeys(DOMAIN d)
    IN [i \in 1..Len(ks) |-> <<ks[Len(ks) + 1 - i], d[ks[Len(ks) + 1 - i]]>>]

\* db.iterator(): the (key, value) pairs of the store as they are when the
\* iterator is created, in key order
DbIterator(d) ==
    LET ks == SortedKeys(DOMAIN d)
    IN [i \in 1..Len(ks) |-> <<ks[i], d[ks[i]]>>]

\* the record of one stored value: json.loads(value.decode())
Record(v) == Loads(FromUtf8(v))

\* the loop of query_events over the iterator
RECURSIVE QueryEvents(_, _)
QueryEvents(it, timestamp_threshold) ==
    IF it = <<>> THEN <<>>
    ELSE (IF StrGe(Record(Head(it)[2]).timestamp, timestamp_threshold)
          THEN <<Record(Head(it)[2])>> ELSE <<>>)
         \o QueryEvents(Tail(it), timestamp_threshold)

\* a point lookup of key: the record stored under it, None if there is none
PointLookup(key) ==
    IF Encode(key) \in DOMAIN db THEN Some(Record(db[Encode(key)])) ELSE None

\* AVG over a sequence of optional numbers: NULL when all are NULL, else the
\* exact mean of the others as the fraction <<sum, count>>
RECURSIVE Sum(_)
Sum(xs) == IF xs = <<>> THEN 0 ELSE Head(xs) + Sum(Tail(xs))
RECURSIVE NonNull(_)
NonNull(xs) ==
    IF xs = <<>> THEN <<>>
    ELSE (IF Head(xs) = None THEN <<>> ELSE <<Head(xs)[1]>>) \o NonNull(Tail(xs))
Avg(xs) ==
    IF NonNull(xs) = <<>> THEN None ELSE Some(<<Sum(NonNull(xs)), Len(NonNull(xs))>>)

\* the rows of t with sensor_id sid and time bucket bucket, in order
RECURSIVE RowsOf(_, _, _)
RowsOf(t, sid, bucket) ==
    IF t = <<>> THEN <<>>
    ELSE (IF Head(t).sensor_id = sid /\ DateTruncMinute(Head(t).recorded_at) = bucket
          THEN <<Head(t)>> ELSE <<>>) \o RowsOf(Tail(t), sid, bucket)

\* aggregate_metrics: one row per (sensor_id, time_bucket) group of t
AggregateMetrics(t) ==
    LET groups == {<<t[i].sensor_id, DateTruncMinute(t[i].recorded_at)>> : i \in 1..Len(t)}
        Col(g, f) == LET rs == RowsOf(t, g[1], g[2]) IN [i \in 1..Len(rs) |-> rs[i][f]]
    IN {[sensor_id |-> g[1],
         avg_temp |-> Avg(Col(g, "temperature")),
         avg_humidity |-> Avg(Col(g, "humidity")),
         avg_pressure |-> Avg(Col(g, "pressure")),
         time_bucket |-> g[2]] : g \in groups}

\* thresholds of /query: two timestamps, "2" and "unknown"
Thresholds == {TsB, TsC, "2", Unknown}

QIdle == [pc |-> "idle", threshold |-> "", it |-> <<>>, results |-> <<>>, snap |-> <<>>]


\* GET /query: query_data calls query_events, which creates the iterator ...
QueryStart ==
    /\ q.pc \in {"idle", "done"}
    /\ \E timestamp_threshold \in Thresholds :
           q' = [pc |-> "scan", threshold |-> timestamp_threshold,
                 it |-> DbIterator(db), results |-> <<>>, snap |-> db]
    /\ UNCHANGED <<db, sensor_data, th, topic, offset, agg, ws, ncalls, restarts, written, puts, done, okcalls>>

\* ... and loops over it and returns the results
QueryReturn ==
    /\ q.pc = "scan"
    /\ q' = [q EXCEPT !.pc = "done", !.results = QueryEvents(q.it, q.threshold)]
    /\ UNCHANGED <<db, sensor_data, th, topic, offset, agg, ws, ncalls, restarts, written, puts, done, okcalls>>

AggIdle == [pc |-> "idle", rows |-> {}]

\* an aggregate that removes the rows it has read
GetAggregatedMetricsDraining ==
    /\ agg' = [pc |-> "done", rows |-> AggregateMetrics(sensor_data)]
    /\ sensor_data' = <<>>
    /\ UNCHANGED <<db, th, topic, offset, q, ws, ncalls, restarts, written, puts, done, okcalls>>

\* GET /aggregated_metrics: one SELECT and fetchall()
GetAggregatedMetrics ==
    /\ agg' = [pc |-> "done", rows |-> AggregateMetrics(sensor_data)]
    /\ UNCHANGED <<db, sensor_data, th, topic, offset, q, ws, ncalls, restarts, written, puts, done, okcalls>>

WsIdle == [pc |-> "idle", it |-> <<>>, sent |-> <<>>, snap |-> <<>>]

\* /live_query: a client connects and websocket.accept() completes
WsAccept ==
    /\ ws.pc \in {"idle", "closed"}
    /\ ws' = [WsIdle EXCEPT !.pc = "accepted"]
    /\ UNCHANGED <<db, sensor_data, th, topic, offset, q, agg, ncalls, restarts, written, puts, done, okcalls>>

\* it = db.iterator()
WsIterate ==
    /\ ws.pc = "accepted"
    /\ ws' = [ws EXCEPT !.pc = "sending", !.it = DbIterator(db), !.snap = db]
    /\ UNCHANGED <<db, sensor_data, th, topic, offset, q, agg, ncalls, restarts, written, puts, done, okcalls>>

\* a feed whose iterator reads the store as it is at each step: after a send
\* it goes on with the keys the store now holds above the one sent
WsSendLive ==
    /\ ws.pc = "sending"
    /\ ws.it # <<>>
    /\ ws' = [ws EXCEPT !.sent = Append(@, Record(Head(ws.it)[2])),
                        !.it = SelectSeq(DbIterator(db),
                                         LAMBDA e : BytesLt(Head(ws.it)[1], e[1]))]
    /\ UNCHANGED <<db, sensor_data, th, topic, offset, q, agg, ncalls, restarts, written, puts, done, okcalls>>

\* one iteration of the loop: await websocket.send_json(record) completes
WsSend ==
    /\ ws.pc = "sending"
    /\ ws.it # <<>>
    /\ ws' = [ws EXCEPT !.sent = Append(@, Record(Head(ws.it)[2])), !.it = Tail(@)]
    /\ UNCHANGED <<db, sensor_data, th, topic, offset, q, agg, ncalls, restarts, written, puts, done, okcalls>>

\* a feed that stops one record short
WsCloseEarly ==
    /\ ws.pc = "sending"
    /\ Len(ws.it) <= 1
    /\ ws' = [ws EXCEPT !.pc = "closed"]
    /\ UNCHANGED <<db, sensor_data, th, topic, offset, q, agg, ncalls, restarts, written, puts, done, okcalls>>

\* the iterator is exhausted: websocket_query returns and the connection closes
WsClose ==
    /\ ws.pc = "sending"
    /\ ws.it = <<>>
    /\ ws' = [ws EXCEPT !.pc = "closed"]
    /\ UNCHANGED <<db, sensor_data, th, topic, offset, q, agg, ncalls, restarts, written, puts, done, okcalls>>

----------------------------------------------------------------------------
(* The process *)

\* a restart that finds the table as it was (a DuckDB database on disk)
RestartKeepingTable ==
    /\ restarts < MaxRestarts
    /\ restarts' = restarts + 1
    /\ th' = [t \in Threads |-> Idle]
    /\ offset' = 1
    /\ q' = [pc |-> "idle", threshold |-> "", it |-> <<>>, results |-> <<>>, snap |-> <<>>]
    /\ agg' = [pc |-> "idle", rows |-> {}]
    /\ ws' = [pc |-> "idle", it |-> <<>>, sent |-> <<>>, snap |-> <<>>]
    /\ done' = [k \in AllKeys |-> <<>>]
    /\ okcalls' = 0
    /\ UNCHANGED <<db, sensor_data, topic, ncalls, written, puts>>

\* the process ends and app.py is run again: RocksDB reopens "streaming_db",
\* DuckDB starts with an empty :memory: database and a new table, the
\* consumer (no group_id, auto_offset_reset='earliest') starts at the first
\* message, and every thread and handler starts afresh
Restart ==
    /\ restarts < MaxRestarts
    /\ restarts' = restarts + 1
    /\ sensor_data' = <<>>
    /\ th' = [t \in Threads |-> Idle]
    /\ offset' = 1
    /\ q' = QIdle
    /\ agg' = AggIdle
    /\ ws' = WsIdle
    /\ done' = [k \in AllKeys |-> <<>>]
    /\ okcalls' = 0
    /\ UNCHANGED <<db, topic, ncalls, written, puts>>

Init ==
    /\ db = <<>>
    /\ sensor_data = <<>>
    /\ th = [t \in Threads |-> Idle]
    /\ topic = <<>>
    /\ offset = 1
    /\ q = QIdle
    /\ agg = AggIdle
    /\ ws = WsIdle
    /\ ncalls = 0
    /\ restarts = 0
    /\ written = [k \in AllKeys |-> None]
    /\ puts = {}
    /\ done = [k \in AllKeys |-> <<>>]
    /\ okcalls = 0

\* app.py run as a script: the consumer thread and the FastAPI server
Next ==
    \/ Produce
    \/ Consume
    \/ StoreEventInsert(ConsumerThread)
    \/ QueryStart
    \/ QueryReturn
    \/ GetAggregatedMetrics
    \/ WsAccept
    \/ WsIterate
    \/ WsSend
    \/ WsClose
    \/ Restart

Spec == Init /\ [][Next]_vars

\* a process that imports app.py and calls stream_index.store_event from one
\* thread, with restarts
NextAPI ==
    \/ Call("caller1")
    \/ StoreEventInsert("caller1")
    \/ Restart

SpecAPI == Init /\ [][NextAPI]_vars

\* the same while /aggregated_metrics is served
NextAgg ==
    \/ CallDuringAggregates
    \/ StoreEventInsert("caller1")
    \/ GetAggregatedMetrics
    \/ Restart

SpecAgg == Init /\ [][NextAgg]_vars

\* store_event called from two threads at once
NextConc ==
    \/ \E t \in Callers : ConcurrentCall(t)
    \/ \E t \in Callers : StoreEventInsert(t)

SpecConc == Init /\ [][NextConc]_vars

\* store_event called from one thread while /query is served
NextQuery ==
    \/ CallDuringReads
    \/ StoreEventInsert("caller1")
    \/ QueryStart
    \/ QueryReturn

SpecQuery == Init /\ [][NextQuery]_vars

\* store_event called from one thread while /live_query is served
NextFeed ==
    \/ CallDuringReads
    \/ StoreEventInsert("caller1")
    \/ WsAccept
    \/ WsIterate
    \/ WsSend
    \/ WsClose

SpecFeed == Init /\ [][NextFeed]_vars

\* store_event called from one thread while /live_query is served to a
\* client that keeps receiving, by an event loop that keeps running
\* websocket_query: no step of the handler stays possible forever without
\* being taken
NextFeedFair ==
    \/ CallDuringFeed
    \/ StoreEventInsert("caller1")
    \/ WsAccept
    \/ WsIterate
    \/ WsSend
    \/ WsClose

SpecFeedFair ==
    /\ Init /\ [][NextFeedFair]_vars
    /\ WF_vars(WsIterate) /\ WF_vars(WsSend) /\ WF_vars(WsClose)

\* store_event called from one thread while /query and /live_query are served
NextScans ==
    \/ CallDuringScans
    \/ StoreEventInsert("caller1")
    \/ QueryStart
    \/ QueryReturn
    \/ WsAccept
    \/ WsIterate
    \/ WsSend
    \/ WsClose

SpecScans == Init /\ [][NextScans]_vars

\* store_event called from one thread while /query, /aggregated_metrics and
\* /live_query are served
NextReads ==
    \/ CallDuringAllReads
    \/ StoreEventInsert("caller1")
    \/ QueryStart
    \/ QueryReturn
    \/ GetAggregatedMetrics
    \/ WsAccept
    \/ WsIterate
    \/ WsSend
    \/ WsClose

SpecReads == Init /\ [][NextReads]_vars

----------------------------------------------------------------------------
(* The properties *)

\* the record the index holds under key as a stored value v, None for None
RecordOf(v) == IF v = None THEN None ELSE Some(Record(v[1]))

\* the number of entries the iterator yields for key
Entries(key) ==
    Cardinality({i \in DOMAIN DbIterator(db) : DbIterator(db)[i][1] = Encode(key)})

\* C1: last-write-wins. For every key, once a store_event call has put an
\* event under it, and whatever calls on other keys follow, the index holds
\* exactly one entry for the key and a point lookup returns the IndexedRecord
\* of the last event put under it.
C1_LastWriteWins ==
    \A k \in AllKeys :
        written[k] # None =>
            /\ PointLookup(k) = Some(IndexedValue(written[k][1]))
            /\ Entries(k) = 1

\* a second call on a key has replaced the record of an earlier, different
\* event, and another key is stored as well
C1_Overwritten ==
    \E t \in Callers :
        /\ th[t].pc \in {"returned", "raised"}
        /\ th[t].exc # "RocksIOError"
        /\ th[t].old # None
        /\ RecordOf(th[t].old) # Some(IndexedValue(th[t].value))
        /\ PointLookup(th[t].key) = Some(IndexedValue(th[t].value))
        /\ Cardinality(DOMAIN db) >= 2

\* the keys of store contents d whose record has timestamp >= threshold
Matching(d, threshold) ==
    {k \in DOMAIN d : ~StrLt(Record(d[k]).timestamp, threshold)}

\* C2: query_events(t) returns exactly the records of the index (as it is
\* when the scan begins) whose timestamp is >= t as strings: every matching
\* key contributes its record once, nothing else is returned, and the result
\* is the empty list when nothing matches.
C2_QueryExact ==
    q.pc = "done" =>
        /\ Len(q.results) = Cardinality(Matching(q.snap, q.threshold))
        /\ {q.results[i] : i \in 1..Len(q.results)}
               = {Record(q.snap[k]) : k \in Matching(q.snap, q.threshold)}

\* a query has returned some of the stored records and left others out
C2_SomeFiltered ==
    /\ q.pc = "done"
    /\ q.results # <<>>
    /\ Len(q.results) < Cardinality(DOMAIN q.snap)
    /\ Cardinality(DOMAIN q.snap) >= 3

\* the number of rows of the table for key
RowCount(key) ==
    IF ParseUUID(key) = None THEN 0
    ELSE Cardinality({i \in 1..Len(sensor_data) :
                          sensor_data[i].sensor_id = ParseUUID(key)[1]})

\* C3: the raw table is append-only and not deduplicated: n store_event calls
\* with the same key (each with arguments the table accepts, each past its
\* db.put) leave n rows for that key.
C3_AppendOnly ==
    \A k \in Keys : RowCount(k) = Len(done[k])

\* C4: a message that fails to decode does not stop the ingestion loop: the
\* consumer thread is never ended by an exception of the deserializer.
C4_DecodeErrorKeepsLoop ==
    ~(/\ th[ConsumerThread].pc = "raised"
      /\ th[ConsumerThread].exc \in {"UnicodeDecodeError", "JSONDecodeError"})

\* C5: a write failure of store_event never terminates the ingestion loop
\* (the loop retries, then drops the event and goes on): the consumer thread
\* is never ended by an exception of the INSERT.
C5_WriteErrorKeepsLoop ==
    ~(/\ th[ConsumerThread].pc = "raised"
      /\ th[ConsumerThread].exc \in {"ConversionException", "ConstraintException"})

\* C6: a snapshot feed sends one message per key the index holds when its
\* scan begins, each the record of that key, and closes only after that:
\* while it sends, the messages are records of the snapshot, no more than its
\* keys; once closed, as many as its keys, each record as often as keys hold it.
C6_SnapshotFeed ==
    /\ ws.pc \in {"sending", "closed"} =>
           /\ Len(ws.sent) <= Cardinality(DOMAIN ws.snap)
           /\ \A i \in 1..Len(ws.sent) : \E k \in DOMAIN ws.snap : ws.sent[i] = Record(ws.snap[k])
    /\ ws.pc = "closed" =>
           /\ Len(ws.sent) = Cardinality(DOMAIN ws.snap)
           /\ \A k \in DOMAIN ws.snap :
                  Cardinality({i \in 1..Len(ws.sent) : ws.sent[i] = Record(ws.snap[k])})
                      = Cardinality({j \in DOMAIN ws.snap :
                                         Record(ws.snap[j]) = Record(ws.snap[k])})

\* a feed opened on three stored keys has sent three messages and closed
C6_FeedClosed ==
    /\ ws.pc = "closed"
    /\ Len(ws.sent) = 3
    /\ ws.snap = db

\* C7: a restart keeps what a point lookup returns for every key, and after
\* a restart /aggregated_metrics returns no rows as long as no store_event
\* call of the new process has returned.
C7_RestartAsymmetry ==
    /\ [][restarts' # restarts => \A k \in AllKeys : PointLookup(k)' = PointLookup(k)]_vars
    /\ [](agg.pc = "done" /\ okcalls = 0 => agg.rows = {})

\* after a restart the index still holds a key and the aggregate is empty
C7_AfterRestart ==
    /\ restarts > 0
    /\ okcalls = 0
    /\ agg.pc = "done"
    /\ agg.rows = {}
    /\ \E k \in Keys : PointLookup(k) # None /\ ParseUUID(k) # None

\* the call of thread t has left its record in the index and its row in the table
Stored(t) ==
    /\ PointLookup(th[t].key) = Some(IndexedValue(th[t].value))
    /\ \E i \in 1..Len(sensor_data) :
           sensor_data[i] = InsertRow(InsertParams(th[t].key, th[t].value))

\* the call of thread t has returned, it overlapped with calls of other
\* threads, and all of those were on other keys
ReturnedBesideOthers(t) ==
    /\ th[t].pc = "returned"
    /\ th[t].conc # {}
    /\ th[t].key \notin th[t].conc

\* C8: two store_event calls on different keys that overlap, in any
\* interleaving of their writes: once both have returned, the index holds the
\* record and the table the row of each.
C8_NoLostUpdate ==
    \A t, u \in Callers :
        t # u /\ ReturnedBesideOthers(t) /\ ReturnedBesideOthers(u)
            => Stored(t) /\ Stored(u)

\* two overlapping calls on different keys have both returned
C8_BothReturned ==
    /\ ReturnedBesideOthers("caller1")
    /\ ReturnedBesideOthers("caller2")
    /\ th["caller1"].key \in th["caller2"].conc
    /\ th["caller2"].key \in th["caller1"].conc

\* two fractions (or two NULLs) are the same number
SameNumber(a, b) ==
    IF a = None \/ b = None THEN a = b ELSE a[1][1] * b[1][2] = b[1][1] * a[1][2]

\* the time bucket of an event the table accepts
BucketOf(e) ==
    DateTruncMinute(IF "timestamp" \in DOMAIN e THEN ParseTimestamp(e.timestamp) ELSE None)

\* the values of field f in the events of es that fall in bucket
RECURSIVE Readings(_, _, _)
Readings(es, bucket, f) ==
    IF es = <<>> THEN <<>>
    ELSE (IF BucketOf(Head(es)) = bucket THEN <<Get(Head(es), f)>> ELSE <<>>)
         \o Readings(Tail(es), bucket, f)

\* C9: the averages of every row of aggregate_metrics are the means of the
\* readings ingested for that sensor in that minute bucket (20 and 22 in one
\* bucket give 21).
C9_MeanOfReadings ==
    \A k \in Keys : \A r \in AggregateMetrics(sensor_data) :
        ParseUUID(k) = Some(r.sensor_id) =>
            /\ SameNumber(r.avg_temp,
                          Avg(Readings(done[k], r.time_bucket, "temperature")))
            /\ SameNumber(r.avg_humidity,
                          Avg(Readings(done[k], r.time_bucket, "humidity")))
            /\ SameNumber(r.avg_pressure,
                          Avg(Readings(done[k], r.time_bucket, "pressure")))

\* C10: a store_event call whose INSERT fails raises, leaves the record it
\* put in the index and adds no row; a call whose db.put fails raises and
\* leaves both stores as they were; a call that returns has added its row.
C10_NoRollback ==
    \A t \in Callers :
        /\ th[t].pc = "raised" /\ th[t].exc # "RocksIOError" =>
               /\ PointLookup(th[t].key) = Some(IndexedValue(th[t].value))
               /\ Len(sensor_data) = th[t].rows0
        /\ th[t].pc = "raised" /\ th[t].exc = "RocksIOError" =>
               /\ PointLookup(th[t].key) = RecordOf(th[t].old)
               /\ Len(sensor_data) = th[t].rows0
        /\ th[t].pc = "returned" =>
               /\ Len(sensor_data) = th[t].rows0 + 1
               /\ sensor_data[Len(sensor_data)]
                      = InsertRow(InsertParams(th[t].key, th[t].value))

\* a call has overwritten a record and then failed in the INSERT
C10_InsertFailed ==
    \E t \in Callers :
        /\ th[t].pc = "raised"
        /\ th[t].exc \in {"ConversionException", "ConstraintException"}
        /\ th[t].old # None
        /\ RecordOf(th[t].old) # Some(IndexedValue(th[t].value))

\* C11: the record store_event writes under a key has the event as its data
\* and, as its timestamp, the event's timestamp field when the event has
\* one, and "unknown" when, and only when, the event has none.
C11_IndexedRecord ==
    \A k \in AllKeys :
        written[k] # None =>
            /\ PointLookup(k) # None
            /\ LET e == written[k][1]
                   r == PointLookup(k)[1]
               IN /\ DOMAIN r = {"data", "timestamp"}
                  /\ r.data = e
                  /\ "timestamp" \in DOMAIN e => r.timestamp = e.timestamp
                  /\ "timestamp" \notin DOMAIN e => r.timestamp = "unknown"
                  /\ r.timestamp = "unknown" => "timestamp" \notin DOMAIN e

\* the index holds a record of an event with a timestamp and a record of an
\* event without
C11_BothKinds ==
    \E j, k \in Keys :
        /\ written[j] # None /\ "timestamp" \in DOMAIN written[j][1]
        /\ written[k] # None /\ "timestamp" \notin DOMAIN written[k][1]
        /\ PointLookup(j)[1].timestamp = written[j][1].timestamp
        /\ PointLookup(k)[1].timestamp = "unknown"

\* C12: a /query request whose threshold is not a timestamp is answered with
\* a failure, never with a result set: query_data does not return a list for
\* a threshold that does not parse as a timestamp.
C12_BadThresholdFails ==
    ~(q.pc = "done" /\ ParseTimestamp(q.threshold) = None)

\* C13: the consumer thread is never blocked by the handlers, nor a handler
\* by the consumer thread: in every reachable state, whatever the handlers
\* are doing (a feed waiting in a send included), the step the consumer
\* thread is at can be taken, and whatever the consumer thread is doing, the
\* step each handler is at can be taken.
C13_NeverBlocked ==
    /\ th[ConsumerThread].pc \in {"ready", "returned"}
           /\ offset <= Len(topic) /\ ncalls < MaxCalls => ENABLED Consume
    /\ th[ConsumerThread].pc = "insert" => ENABLED StoreEventInsert(ConsumerThread)
    /\ q.pc \in {"idle", "done"} => ENABLED QueryStart
    /\ q.pc = "scan" => ENABLED QueryReturn
    /\ ENABLED GetAggregatedMetrics
    /\ ws.pc \in {"idle", "closed"} => ENABLED WsAccept
    /\ ws.pc = "accepted" => ENABLED WsIterate
    /\ ws.pc = "sending" /\ ws.it = <<>> => ENABLED WsClose

\* the consumer thread is between the two writes of store_event while a feed
\* waits in a send and a query scans
C13_AllInProgress ==
    /\ th[ConsumerThread].pc = "insert"
    /\ ws.pc = "sending" /\ ws.it # <<>>
    /\ q.pc = "scan" /\ q.it # <<>>

\* C14: the snapshot feed is bounded. With a client that keeps receiving, a
\* feed that was accepted closes, whatever store_event calls are made
\* meanwhile; the messages sent and the entries still to send are at every
\* moment as many as the keys the index held when the scan began; and a feed
\* that has closed sends nothing more.
C14_BoundedFeed ==
    /\ (ws.pc = "accepted") ~> (ws.pc = "closed")
    /\ [](ws.pc \in {"sending", "closed"} =>
              Len(ws.sent) + Len(ws.it) = Cardinality(DOMAIN ws.snap))
    /\ [][ws.pc = "closed" /\ ws'.pc = "closed" => ws'.sent = ws.sent]_vars

\* a feed has sent its records and closed, and the index has changed since
\* its scan began
C14_ClosedAfterWrites ==
    /\ ws.pc = "closed"
    /\ Len(ws.sent) >= 1
    /\ Cardinality(DOMAIN db) > Cardinality(DOMAIN ws.snap)

\* r is the complete record of the event e
CompleteRecordOf(r, e) ==
    /\ DOMAIN r = {"data", "timestamp"}
    /\ r.data = e
    /\ r.timestamp = IF "timestamp" \in DOMAIN e THEN e.timestamp ELSE "unknown"

\* every record of rs is the complete record of an event some store_event
\* call has put, each under a key of its own
WrittenRecords(rs) ==
    \E ks \in [1..Len(rs) -> Keys] :
        /\ \A i, j \in 1..Len(rs) : i # j => ks[i] # ks[j]
        /\ \A i \in 1..Len(rs) :
               \E p \in puts : p[1] = ks[i] /\ CompleteRecordOf(rs[i], p[2])

\* C15: while store_event calls go on, every record query_events has
\* returned and every message a feed has sent is the complete record of an
\* event that a store_event call made before had put, with at most one
\* record per key: never a record nobody wrote, nor a mixture of two writes.
C15_CompleteRecords ==
    /\ q.pc = "done" => WrittenRecords(q.results)
    /\ ws.pc \in {"sending", "closed"} => WrittenRecords(ws.sent)

\* a query has returned two records and a feed has sent one while a call
\* was between its two writes, after a record had been overwritten
C15_ReadDuringWrites ==
    /\ q.pc = "done" /\ Len(q.results) >= 2
    /\ ws.pc = "sending" /\ ws.sent # <<>>
    /\ th["caller1"].pc = "insert"
    /\ \E o, p \in puts : o[1] = p[1] /\ o[2] # p[2]

\* C16: the list query_events returns is in ascending order of the keys (as
\* bytes) of the records it holds, whatever the order in which the events
\* were stored and whatever their timestamps: the record of a matching key
\* stands at the position given by the number of matching keys below it.
C16_KeyOrder ==
    q.pc = "done" =>
        LET M == Matching(q.snap, q.threshold)
            Rank(k) == 1 + Cardinality({j \in M : BytesLt(j, k)})
        IN /\ Len(q.results) = Cardinality(M)
           /\ \A k \in M : q.results[Rank(k)] = Record(q.snap[k])

\* a query has returned two records, the later timestamp first, and the
\* first of them is the record of the key stored last
C16_NotByTime ==
    /\ q.pc = "done" /\ Len(q.results) = 2 /\ q.snap = db
    /\ StrLt(q.results[2].timestamp, q.results[1].timestamp)
    /\ th["caller1"].pc \in {"returned", "raised"}
    /\ th["caller1"].old = None
    /\ PointLookup(th["caller1"].key) = Some(q.results[1])
    /\ PointLookup(th["caller1"].key)[1] # q.results[2]

\* C17: at every moment of a process lifetime (between the two writes of a
\* store_event call and after a failed INSERT included), every sensor_id of
\* a row of the table is the key of a record of the index. The converse
\* does not hold.
C17_RowsHaveRecords ==
    \A i \in 1..Len(sensor_data) :
        \E k \in DOMAIN db : ParseUUID(k.ascii) = Some(sensor_data[i].sensor_id)

\* the table has a row, and after a failed INSERT the index holds a key that
\* is a sensor_id and has no row
C17_RecordWithoutRow ==
    /\ Len(sensor_data) >= 1
    /\ th["caller1"].pc = "raised" /\ th["caller1"].exc = "ConversionException"
    /\ ParseUUID(th["caller1"].key) # None
    /\ Encode(th["caller1"].key) \in DOMAIN db
    /\ RowCount(th["caller1"].key) = 0

\* C18: query_events, aggregate_metrics and the snapshot feed only read:
\* every step of the /query, /aggregated_metrics and /live_query handlers,
\* for any contents of the stores and any threshold, leaves the index and
\* the table as they were.
C18_ReadOnly ==
    [][(q' # q \/ agg' # agg \/ ws' # ws) =>
           (db' = db /\ sensor_data' = sensor_data)]_vars

\* the three handlers have run to their end on stores that hold a record
\* and a row, and the stores are as they were when the handlers read them
C18_AllRead ==
    /\ q.pc = "done" /\ q.results # <<>> /\ q.snap = db
    /\ ws.pc = "closed" /\ ws.sent # <<>> /\ ws.snap = db
    /\ agg.pc = "done" /\ agg.rows # {} /\ agg.rows = AggregateMetrics(sensor_data)

\* C19: the record of an event that has no timestamp is returned by
\* query_events(t) for every threshold t that begins with a digit, as every
\* ISO-8601 timestamp does: a time threshold never filters it out.
C19_UnknownNeverFiltered ==
    q.pc = "done" /\ Chars(q.threshold) # <<>> /\ IsDigit(Chars(q.threshold)[1]) =>
        \A k \in DOMAIN q.snap :
            "timestamp" \notin DOMAIN Record(q.snap[k]).data =>
                \E i \in 1..Len(q.results) : q.results[i] = Record(q.snap[k])

\* a query with a timestamp as its threshold has left out a record with an
\* earlier timestamp and returned the record of an event without timestamp
C19_UnknownReturned ==
    /\ q.pc = "done" /\ ParseTimestamp(q.threshold) # None
    /\ Len(q.results) < Cardinality(DOMAIN q.snap)
    /\ \E i \in 1..Len(q.results) :
           /\ "timestamp" \notin DOMAIN q.results[i].data
           /\ q.results[i].timestamp = "unknown"

====
